---- MODULE Spec2Model ----
(***************************************************************************)
(* ReAct agent (agents/react.py) with conversation compaction              *)
(* (agents/summarizer.py) over the message/loop model                      *)
(* (schemas/messages.py).  The Model Gateway (llm/client.py) and the tools *)
(* are the environment: every answer they give is drawn from a small set.  *)
(***************************************************************************)
EXTENDS Integers, Sequences, FiniteSets, TLC

\* ------------------------------------------------------------------ bounds
\* number of run() calls made on one engine
MaxRuns == 2
\* max_iterations is drawn from 1..MaxIterLimit at construction
MaxIterLimit == 2
\* Decide-Action steps that request tools, over the engine's lifetime
MaxToolRounds == 2
\* longest batch of ToolCalls handed to _act in SpecAct
MaxBatch == 3
\* longest loop list handed to compact_conversation in SpecCompact
MaxLoops == 3
\* compact_conversation calls made in SpecCompact
MaxCalls == 2
\* largest loops_to_summarize handed to compact_conversation in SpecCompact
MaxCount == 2


\* ------------------------------------------------------- program constants
\* AgentConfig.compact_after_loops default
DefaultCompactAfterLoops == 3
\* AgentConfig.compact_context_threshold default
DefaultCompactContextThreshold == 50000
\* AgentConfig.max_iterations default
DefaultMaxIterations == 10
\* _format_observations truncation length
ObservationLimit == 200

\* ------------------------------------------------------------- data model
\* Python None for Optional[str] fields
None == "<None>"
\* Optional[List[ToolCall]] = None; None and [] are both falsy where the code tests them
NoToolCalls == << >>

\* Python truthiness of an Optional[str]
Truthy(s) == s # None /\ s # ""

\* Python `a or b` on an Optional[str]
OrElse(a, b) == IF Truthy(a) THEN a ELSE b

\* Message(role, content, tool_calls, tool_call_id); name is never set by the agents
Message(role, content, tool_calls, tool_call_id) ==
    [role |-> role, content |-> content, tool_calls |-> tool_calls,
     tool_call_id |-> tool_call_id, name |-> None]

\* ToolCall(id, name, arguments); arguments is a dict, kept as its ordered items
ToolCall(id, name, arguments) == [id |-> id, name |-> name, arguments |-> arguments]

\* ToolResult(tool_call_id, arguments, content)
ToolResult(tool_call_id, arguments, content) ==
    [tool_call_id |-> tool_call_id, arguments |-> arguments, content |-> content]

\* ReActLoop(messages, iteration, tools_used)
ReActLoop(msgs, iteration, tools_used) ==
    [messages |-> msgs, iteration |-> iteration, tools_used |-> tools_used]

\* the elements of a sequence
Range(s) == {s[i] : i \in 1..Len(s)}

\* every ordering of a finite set: what list(set(...)) may return
RECURSIVE Orderings(_)
Orderings(S) ==
    IF S = {} THEN {<< >>}
    ELSE UNION {{<<x>> \o t : t \in Orderings(S \ {x})} : x \in S}

\* sep.join(parts) on a list of strings
RECURSIVE Join(_, _)
Join(parts, sep) ==
    IF Len(parts) = 0 THEN ""
    ELSE IF Len(parts) = 1 THEN parts[1]
    ELSE parts[1] \o sep \o Join(Tail(parts), sep)

\* str(dict) for a dict of string keys and string values
RECURSIVE DictItems(_)
DictItems(items) ==
    IF Len(items) = 0 THEN << >>
    ELSE <<"'" \o items[1][1] \o "': '" \o items[1][2] \o "'">> \o DictItems(Tail(items))

PyStrDict(arguments) == "{" \o Join(DictItems(arguments), ", ") \o "}"

\* ReActLoop.add_message: append the message, then track the tool names in order of
\* first use
RECURSIVE TrackTools(_, _)
TrackTools(tools_used, tool_calls) ==
    IF Len(tool_calls) = 0 THEN tools_used
    ELSE TrackTools(IF tool_calls[1].name \in Range(tools_used) THEN tools_used
                    ELSE Append(tools_used, tool_calls[1].name),
                    Tail(tool_calls))

LoopAddMessage(loop, msg) ==
    [loop EXCEPT !.messages = Append(@, msg),
                 !.tools_used = TrackTools(@, msg.tool_calls)]

\* ----------------------------------------------------- tools and registry
\* ToolRegistry._tools after construction, in registration order: the calculator and a
\* tool whose execute() raises
RegisteredTools == <<"calculator", "flaky">>

\* repr() of a list of strings
PyReprList(names) ==
    "[" \o Join([i \in 1..Len(names) |-> "'" \o names[i] \o "'"], ", ") \o "]"

\* an outcome of a call that may raise
Returned(v) == [ok |-> TRUE, value |-> v]
Raised(message) == [ok |-> FALSE, value |-> message]

\* the keys of the dict ToolRegistry._tools, in insertion order; the dict is kept as the
\* sequence of its values, each tool under its own name
Keys(tools) == [i \in 1..Len(tools) |-> tools[i].name]

\* no tool object
NoTool == [name |-> "", impl |-> ""]

\* self._tools[name]
ToolNamed(tools, name) == tools[CHOOSE i \in 1..Len(tools) : tools[i].name = name]

\* a variant of RegistryRegister that binds the name to the new tool
RegistryRegisterOverwrites(tools, tool) ==
    [tools |-> IF tool.name \in Range(Keys(tools))
               THEN [i \in 1..Len(tools) |->
                       IF tools[i].name = tool.name THEN tool ELSE tools[i]]
               ELSE Append(tools, tool),
     raised |-> "", message |-> ""]

\* ToolRegistry.register: _tools afterwards, the exception raised ("" when it returned)
\* and its message
RegistryRegister(tools, tool) ==
    IF tool.name \in Range(Keys(tools))
    THEN [tools |-> tools, raised |-> "ValueError",
          message |-> "Tool with name '" \o tool.name \o "' is already registered"]
    ELSE [tools |-> Append(tools, tool), raised |-> "", message |-> ""]

\* ToolRegistry.get: _tools afterwards, the exception raised, the tool returned, and the
\* message; str() of a KeyError is the repr of its message
RegistryLookup(tools, name) ==
    IF name \notin Range(Keys(tools))
    THEN [tools |-> tools, raised |-> "KeyError", value |-> NoTool,
          message |-> "\"Tool '" \o name \o "' not found in registry. Available tools: "
                      \o PyReprList(Keys(tools)) \o "\""]
    ELSE [tools |-> tools, raised |-> "", value |-> ToolNamed(tools, name), message |-> ""]

\* the registry BaseAgent.__init__ builds from RegisteredTools
RECURSIVE RegisterAll(_, _)
RegisterAll(tools, names) ==
    IF Len(names) = 0 THEN tools
    ELSE RegisterAll(RegistryRegister(tools, [name |-> names[1], impl |-> "first"]).tools,
                     Tail(names))

BuiltRegistry == RegisterAll(<< >>, RegisteredTools)

\* self._tool_registry.get(name) in _act: the tool (known by its name), or the KeyError
RegistryGet(name) ==
    LET found == RegistryLookup(BuiltRegistry, name) IN
    IF found.raised = "" THEN Returned(found.value.name) ELSE Raised(found.message)

\* the value bound to a key of a dict, None when the key is absent
RECURSIVE DictGet(_, _)
DictGet(items, key) ==
    IF Len(items) = 0 THEN None
    ELSE IF items[1][1] = key THEN items[1][2]
    ELSE DictGet(Tail(items), key)

\* tool.args_schema.model_validate: CalculatorInput requires `expression`, extra keys
\* are ignored; the flaky tool takes no arguments
ValidateArgs(name, arguments) ==
    IF name = "calculator"
    THEN IF DictGet(arguments, "expression") = None
         THEN Raised("1 validation error for CalculatorInput")
         ELSE Returned(<< <<"expression", DictGet(arguments, "expression")>> >>)
    ELSE Returned(<< >>)

\* tool.execute(**validated_args): CalculatorTool.execute answers with a string for
\* every expression; the flaky tool raises
ToolExecute(name, validated) ==
    IF name = "calculator"
    THEN CASE DictGet(validated, "expression") = "12*4" -> Returned("Result: 48")
           [] DictGet(validated, "expression") = "1/0" -> Returned("Error: Division by zero")
           [] OTHER -> Returned("Error evaluating expression: invalid syntax")
    ELSE Raised("boom")

\* the body of the try block of _act for one tool call
TryToolCall(tool_call) ==
    LET tool == RegistryGet(tool_call.name) IN
    IF ~tool.ok THEN tool
    ELSE LET validated == ValidateArgs(tool.value, tool_call.arguments) IN
         IF ~validated.ok THEN validated
         ELSE ToolExecute(tool.value, validated.value)

\* a variant of ActOne that yields no result for a call that faulted
ActOneDropsFaulted(tool_call) ==
    LET out == TryToolCall(tool_call) IN
    IF out.ok THEN <<ToolResult(tool_call.id, tool_call.arguments, out.value)>>
    ELSE << >>

\* one pass of the for loop of _act: a ToolResult whether the try block returned or raised
ActOne(tool_call) ==
    LET out == TryToolCall(tool_call) IN
    IF out.ok THEN <<ToolResult(tool_call.id, tool_call.arguments, out.value)>>
    ELSE <<ToolResult(tool_call.id, tool_call.arguments,
                      "Error executing tool: " \o out.value)>>

\* ReActAgent._act
RECURSIVE Act(_)
Act(tool_calls) ==
    IF Len(tool_calls) = 0 THEN << >>
    ELSE ActOne(tool_calls[1]) \o Act(Tail(tool_calls))

\* ReActAgent._format_observations
TruncateObservation(content) ==
    IF Len(content) > ObservationLimit
    THEN SubSeq(content, 1, ObservationLimit) \o "..."
    ELSE content

FormatObservations(results) ==
    Join([i \in 1..Len(results) |-> TruncateObservation(results[i].content)], " | ")

\* a variant of ObserveMessages that adds the tool messages before the assistant message
ObserveMessagesResultsFirst(tool_calls, results) ==
    [i \in 1..Len(results) |->
       Message("tool",
               results[i].content \o " (with arguments: "
                   \o PyStrDict(results[i].arguments) \o ")",
               NoToolCalls, results[i].tool_call_id)]
    \o <<Message("assistant", None, tool_calls, None)>>

\* the messages _observe adds: one assistant message with all tool calls, then one tool
\* message per result
ObserveMessages(tool_calls, results) ==
    <<Message("assistant", None, tool_calls, None)>>
    \o [i \in 1..Len(results) |->
          Message("tool",
                  results[i].content \o " (with arguments: "
                      \o PyStrDict(results[i].arguments) \o ")",
                  NoToolCalls, results[i].tool_call_id)]

\* -------------------------------------------------------------- summarizer
\* how an f-string renders an Optional[str]
FStr(s) == IF s = None THEN "None" ELSE s

\* the transcript lines of one message in _format_messages_for_summary
TranscriptLines(msg) ==
    CASE msg.role = "system" -> << >>
      [] msg.role = "user" -> <<"USER: " \o FStr(msg.content)>>
      [] msg.role = "assistant" ->
           IF Len(msg.tool_calls) > 0
           THEN (IF Truthy(msg.content) THEN <<"ASSISTANT: " \o msg.content>> ELSE << >>)
                \o <<"ASSISTANT: [Called tools: "
                     \o Join([i \in 1..Len(msg.tool_calls) |-> msg.tool_calls[i].name], ", ")
                     \o "]">>
           ELSE IF Truthy(msg.content) THEN <<"ASSISTANT: " \o msg.content>>
           ELSE << >>
      [] msg.role = "tool" -> <<"TOOL RESULT: " \o FStr(msg.content)>>
      [] OTHER -> << >>

\* a variant of TranscriptTools that collects only the first name of a batch
TranscriptToolsFirstOnly(msg) ==
    IF msg.role = "assistant" /\ Len(msg.tool_calls) > 0
    THEN {msg.tool_calls[1].name}
    ELSE {}

\* the tool names one message adds to tools_set in _format_messages_for_summary
TranscriptTools(msg) ==
    IF msg.role = "assistant"
    THEN {msg.tool_calls[i].name : i \in 1..Len(msg.tool_calls)}
    ELSE {}

RECURSIVE AllTranscriptLines(_)
AllTranscriptLines(msgs) ==
    IF Len(msgs) = 0 THEN << >>
    ELSE TranscriptLines(msgs[1]) \o AllTranscriptLines(Tail(msgs))

\* SummarizerAgent._format_messages_for_summary: the transcript and the set of tool names
\* (the code returns list(tools_set), whose order is whatever the set iterates in)
FormatMessagesForSummary(msgs) ==
    [text |-> Join(AllTranscriptLines(msgs), "\n"),
     tools |-> UNION {TranscriptTools(msgs[i]) : i \in 1..Len(msgs)}]

\* the request summarize_loop sends to the Model Gateway
SummarizerSystemPrompt == Message("system", "SUMMARIZER_SYSTEM_PROMPT", NoToolCalls, None)

SummaryRequest(loop) ==
    <<SummarizerSystemPrompt,
      Message("user",
              "Please summarize the following conversation history:\n\n"
                  \o FormatMessagesForSummary(loop.messages).text,
              NoToolCalls, None)>>

\* a variant of SummarizeLoop whose replacement holds the summary alone
SummarizeLoopSummaryOnly(loop, cursor, response_content) ==
    {LoopAddMessage(ReActLoop(<< >>, cursor, order),
                    Message("summary",
                            OrElse(response_content, "Summary generation failed."),
                            NoToolCalls, None))
       : order \in Orderings(FormatMessagesForSummary(loop.messages).tools)}

\* a variant of SummarizeLoop whose replacement keeps the loop's first two messages
SummarizeLoopKeepsThought(loop, cursor, response_content) ==
    {LoopAddMessage(ReActLoop(SubSeq(loop.messages, 1, 2), cursor, order),
                    Message("summary",
                            OrElse(response_content, "Summary generation failed."),
                            NoToolCalls, None))
       : order \in Orderings(FormatMessagesForSummary(loop.messages).tools)}

\* SummarizerAgent.summarize_loop once the gateway has answered with response_content:
\* the replacement loops it may build, one per order of list(tools_set)
SummarizeLoop(loop, cursor, response_content) ==
    {LoopAddMessage(ReActLoop(<<loop.messages[1]>>, cursor, order),
                    Message("summary",
                            OrElse(response_content, "Summary generation failed."),
                            NoToolCalls, None))
       : order \in Orderings(FormatMessagesForSummary(loop.messages).tools)}

\* a variant of CompactConversation that never advances the cursor
RECURSIVE CompactConversationStuck(_, _, _, _)
CompactConversationStuck(lps, cursor, count, outs) ==
    IF count = 0
    THEN {[loops |-> lps, cursor |-> cursor, raised |-> "", passed |-> << >>]}
    ELSE IF cursor >= Len(lps)
    THEN {[loops |-> lps, cursor |-> cursor, raised |-> "IndexError", passed |-> << >>]}
    ELSE IF ~outs[1].ok
    THEN {[loops |-> lps, cursor |-> cursor, raised |-> "GatewayError",
           passed |-> <<[pos |-> cursor, done |-> FALSE]>>]}
    ELSE UNION {{[r EXCEPT !.passed = <<[pos |-> cursor, done |-> TRUE]>> \o @]
                   : r \in CompactConversationStuck([lps EXCEPT ![cursor + 1] = s],
                                                    cursor, count - 1, Tail(outs))}
                  : s \in SummarizeLoop(lps[cursor + 1], cursor, outs[1].value)}

\* SummarizerAgent.compact_conversation(loops, loops_to_summarize) from cursor
\* _loop_summerized, the gateway answering the i-th summarization with outs[i]: the set
\* of ways the call may end.  raised names the exception that ended it ("" when it
\* returned); passed lists the positions handed to summarize_loop, with done telling
\* whether the loop was replaced.
RECURSIVE CompactConversation(_, _, _, _)
CompactConversation(lps, cursor, count, outs) ==
    IF count = 0
    THEN {[loops |-> lps, cursor |-> cursor, raised |-> "", passed |-> << >>]}
    ELSE IF cursor >= Len(lps)
    THEN {[loops |-> lps, cursor |-> cursor, raised |-> "IndexError", passed |-> << >>]}
    ELSE IF ~outs[1].ok
    THEN {[loops |-> lps, cursor |-> cursor, raised |-> "GatewayError",
           passed |-> <<[pos |-> cursor, done |-> FALSE]>>]}
    ELSE UNION {{[r EXCEPT !.passed = <<[pos |-> cursor, done |-> TRUE]>> \o @]
                   : r \in CompactConversation([lps EXCEPT ![cursor + 1] = s],
                                               cursor + 1, count - 1, Tail(outs))}
                  : s \in SummarizeLoop(lps[cursor + 1], cursor, outs[1].value)}

\* ------------------------------------------------------------ environment
\* The Model Gateway answers _reason and _decide_action with a response (content,
\* tool_calls, context_length); run() reads all three.  The call of summarize_loop may
\* also raise, which summarize_loop does not catch.  The responses of the repository's
\* LLMClient, which carry no context_length, are those of SpecClient below.
\* the answers the Model Gateway gives a Reason call: text and context_length
ReasonResponses ==
    {[content |-> None, context_length |-> DefaultCompactContextThreshold - 1],
     [content |-> "Use the calculator.", context_length |-> DefaultCompactContextThreshold]}

\* the tool-call batches the Model Gateway requests in a Decide-Action call
DecideBatches ==
    {<<ToolCall("call_1", "calculator", << <<"expression", "12*4">> >>)>>,
     <<ToolCall("call_1", "calculator", << <<"expr", "12*4">> >>),
       ToolCall("call_2", "flaky", << >>),
       ToolCall("call_3", "calculator", << <<"expression", "1/0">> >>)>>}

\* the texts the Model Gateway gives with a Decide-Action call that requests no tool
FinalContents == {None, "", "The answer is 48."}

\* the outcomes of the Model Gateway call of summarize_loop
SummaryOutcomes ==
    {Raised("gateway failure"), Returned(None), Returned("Asked 12 * 4; the answer is 48.")}

\* the query of the n-th run() call
QueryOf(n) == "What is 12 * " \o ToString(n) \o "?"

\* ------------------------------------------------------------------ state
VARIABLES
    config,                  \* max_iterations, compact_after_loops, compact_context_threshold
    messages,                \* BaseAgent._messages, the global mirror
    loops,                   \* ReActAgent._loops
    loop_counter,            \* ReActAgent._loop_counter
    current_context_length,  \* ReActAgent._current_context_length
    loop_summerized,         \* SummarizerAgent._loop_summerized, the cursor
    pc,                      \* where the current run() call stands
    iteration,               \* the for loop variable of run()
    reasoning_trace,         \* local of run()
    tools_used,              \* local of run()
    action_response,         \* local of run(): the last Decide-Action response
    response,                \* what the last run() returned, NoResponse if it raised
    outcome,                 \* how the last run() ended
    runs,                    \* history: run() calls started
    toolRounds,              \* history: Decide-Action steps that requested tools
    decideCalls,             \* history: Decide-Action calls of the current run()
    reasonContext,           \* history: messages given to the last Reason call
    atTerminal,              \* history: loops, cursor and mirror when the answer was reached
    compactInvoked,          \* history: compactions invoked by the current run()
    summarizeLog,            \* history: positions handed to summarize_loop
    lastCalls,               \* history: the batch last given to _act
    lastResults,             \* history: what _act returned for it
    lastCompact,             \* history: the compact_conversation call just made
    added,                   \* history: the messages passed to _add_message, in call order,
                             \* kept until a loop is summarized
    reasoning_response,      \* local of run(): the response of the last Reason call
    lastRequest,             \* history: the last request _reason or _decide_action made
    registry,                \* ToolRegistry._tools
    lastRegister,            \* history: the last register() call and how it ended
    lastGet,                 \* history: the last get() call and how it ended
    answered,                \* history: run() calls that reached a terminal answer
    reasonCalls,             \* history: Reason calls of the current run()
    phases,                  \* history: the phases of the current run(), in order
    atStart,                 \* history: how the call before ended, and the counter, the
                             \* cursor and the mirror when the current run() was called
    events                   \* history: the tool executions and _add_message calls of the
                             \* last iteration that requested tools, in execution order

vars ==
    <<config, messages, loops, loop_counter, current_context_length, loop_summerized,
      pc, iteration, reasoning_trace, tools_used, action_response, response, outcome,
      runs, toolRounds, decideCalls, reasonContext, atTerminal, compactInvoked,
      summarizeLog, lastCalls, lastResults, lastCompact, added, reasoning_response,
      lastRequest, registry, lastRegister, lastGet, answered, reasonCalls, phases,
      atStart, events>>

NoResponse == [answer |-> None, reasoning_trace |-> << >>, tools_used |-> << >>,
               iterations |-> 0]

NoDecision == [content |-> None, tool_calls |-> NoToolCalls]

\* no Reason call has been answered yet
NoReasoning == [content |-> None]

\* no register() or get() call has been made yet
NoRegistryCall ==
    [called |-> FALSE, tool |-> NoTool, name |-> "", before |-> << >>, raised |-> "",
     message |-> "", value |-> NoTool]

\* no request has been made yet
NoRequest == [step |-> "none", messages |-> << >>, tool_choice |-> "", reason |-> FALSE]

NoCompact ==
    [count |-> 0, outs |-> << >>, loops |-> << >>, cursor |-> 0, raised |-> "",
     passed |-> << >>]

\* AgentConfig() with its defaults
DefaultConfig ==
    [max_iterations |-> DefaultMaxIterations,
     compact_after_loops |-> DefaultCompactAfterLoops,
     compact_context_threshold |-> DefaultCompactContextThreshold]

SystemMessage == Message("system", "REACT_SYSTEM_PROMPT", NoToolCalls, None)

\* the instruction message _reason appends to the context
ReasonInstruction ==
    Message("user",
            "Think step-by-step: What information do you have? What do you still need? What tool calls should call next and in what order?",
            NoToolCalls, None)

\* a variant of AddMessage that takes a loop without messages for no loop
AddMessageSkipsEmptyLoop(st, msg) ==
    [messages |-> Append(st.messages, msg),
     loops |-> IF Len(st.loops) = 0 \/ Len(st.loops[Len(st.loops)].messages) = 0
               THEN st.loops
               ELSE [st.loops EXCEPT ![Len(st.loops)] = LoopAddMessage(@, msg)]]

\* ReActAgent._add_message: to the mirror and, when a loop exists, to the last loop
AddMessage(st, msg) ==
    [messages |-> Append(st.messages, msg),
     loops |-> IF Len(st.loops) = 0 THEN st.loops
               ELSE [st.loops EXCEPT ![Len(st.loops)] = LoopAddMessage(@, msg)]]

RECURSIVE AddMessages(_, _)
AddMessages(st, msgs) ==
    IF Len(msgs) = 0 THEN st
    ELSE AddMessages(AddMessage(st, msgs[1]), Tail(msgs))

\* the concatenation of the loops' messages, in loop order
RECURSIVE ConcatLoops(_)
ConcatLoops(lps) ==
    IF Len(lps) = 0 THEN << >>
    ELSE lps[1].messages \o ConcatLoops(Tail(lps))

\* a variant of BuildFullConversationFromLoops that leaves the mirror as it is
BuildKeepsMirror(msgs, lps) == msgs

\* ReActAgent._build_full_conversation_from_loops
BuildFullConversationFromLoops(msgs, lps) ==
    (IF Len(msgs) > 0 /\ msgs[1].role = "system" THEN <<msgs[1]>> ELSE << >>)
    \o ConcatLoops(lps)

\* a variant of LoopContinues that allows one iteration more
LoopContinuesOneMore(iter) == iter + 1 <= config.max_iterations

\* for iteration in range(self._max_iterations): whether an iteration follows iteration iter
LoopContinues(iter) == iter + 1 < config.max_iterations

\* a variant of ShouldCompact that needs both thresholds
ShouldCompactBoth(counter, context_length) ==
    /\ counter >= config.compact_after_loops
    /\ context_length >= config.compact_context_threshold

\* the compaction test of run() at a terminal answer
ShouldCompact(counter, context_length) ==
    \/ counter >= config.compact_after_loops
    \/ context_length >= config.compact_context_threshold

\* a variant of AgentResponses that returns tools_used as it was collected
AgentResponsesKeepsDuplicates(content, trace, used, iter) ==
    {[answer |-> OrElse(content, "No answer provided"), reasoning_trace |-> trace,
      tools_used |-> used, iterations |-> iter + 1]}

\* the AgentResponse run() builds; list(set(tools_used)) comes in any order
AgentResponses(content, trace, used, iter) ==
    {[answer |-> OrElse(content, "No answer provided"), reasoning_trace |-> trace,
      tools_used |-> order, iterations |-> iter + 1] : order \in Orderings(Range(used))}

\* ----------------------------------------------------------------- engine
\* ReActAgent.__init__ (and SummarizerAgent.__init__): the state after construction
EngineInit ==
    /\ messages = <<SystemMessage>>
    /\ loop_counter = 0
    /\ current_context_length = 0
    /\ loop_summerized = 0
    /\ iteration = 0
    /\ reasoning_trace = << >>
    /\ tools_used = << >>
    /\ action_response = NoDecision
    /\ response = NoResponse
    /\ outcome = "none"
    /\ runs = 0
    /\ toolRounds = 0
    /\ decideCalls = 0
    /\ reasonContext = << >>
    /\ atTerminal = [loops |-> << >>, cursor |-> 0, messages |-> << >>]
    /\ compactInvoked = 0
    /\ summarizeLog = << >>
    /\ lastResults = << >>
    /\ lastCompact = NoCompact
    /\ added = <<SystemMessage>>
    /\ reasoning_response = NoReasoning
    /\ lastRequest = NoRequest
    /\ events = << >>
    /\ lastRegister = NoRegistryCall
    /\ lastGet = NoRegistryCall
    /\ answered = 0
    /\ reasonCalls = 0
    /\ phases = << >>
    /\ atStart = [outcome |-> "none", loop_counter |-> 0, cursor |-> 0, messages |-> << >>]

Init ==
    /\ EngineInit
    /\ config \in [max_iterations : 1..MaxIterLimit,
                   compact_after_loops : {1, DefaultCompactAfterLoops},
                   compact_context_threshold : {DefaultCompactContextThreshold}]
    /\ loops = << >>
    /\ lastCalls = << >>
    /\ registry = BuiltRegistry
    /\ pc = "idle"

\* the log of _add_message calls once msgs were added; the log is kept until the first
\* summarization
Logged(log, msgs) == IF loop_summerized = 0 THEN log \o msgs ELSE log

\* a variant of OpenLoop that numbers a loop by its position in the loop sequence
OpenLoopByPosition(lps, counter) == Append(lps, ReActLoop(<< >>, Len(lps), << >>))

\* a variant of OpenLoop that opens a loop only when there is none
OpenLoopOnce(lps, counter) ==
    IF Len(lps) = 0 THEN Append(lps, ReActLoop(<< >>, counter, << >>)) ELSE lps

\* new_loop = ReActLoop(iteration=self._loop_counter); self._loops.append(new_loop)
OpenLoop(lps, counter) == Append(lps, ReActLoop(<< >>, counter, << >>))

\* run(query), up to the for loop: open a loop, add the user query
RunStart ==
    /\ pc = "idle"
    /\ runs < MaxRuns
    /\ LET query == Message("user", QueryOf(runs + 1), NoToolCalls, None)
           st == AddMessage([messages |-> messages,
                             loops |-> OpenLoop(loops, loop_counter)], query)
       IN /\ messages' = st.messages
          /\ loops' = st.loops
          /\ added' = Logged(added, <<query>>)
    /\ runs' = runs + 1
    /\ iteration' = 0
    /\ reasoning_trace' = << >>
    /\ tools_used' = << >>
    /\ action_response' = NoDecision
    /\ response' = NoResponse
    /\ outcome' = "running"
    /\ decideCalls' = 0
    /\ compactInvoked' = 0
    /\ reasonCalls' = 0
    /\ phases' = << >>
    /\ atStart' = [outcome |-> outcome, loop_counter |-> loop_counter,
                   cursor |-> loop_summerized, messages |-> messages]
    /\ pc' = "reason"
    /\ UNCHANGED <<config, loop_counter, current_context_length, loop_summerized,
                   toolRounds, reasonContext, atTerminal, summarizeLog, lastCalls,
                   lastResults, lastCompact, reasoning_response, lastRequest, events,
                   registry, lastRegister, lastGet, answered>>

\* reading an attribute of a response object: AttributeError when the object has none
GetAttr(obj, name) ==
    IF name \in DOMAIN obj THEN Returned(obj[name]) ELSE Raised("AttributeError")

\* a variant of ReasonRequest that lets the model choose tools
ReasonRequestAuto(msgs) ==
    [step |-> "reason", messages |-> msgs \o <<ReasonInstruction>>,
     tools |-> RegisteredTools, tool_choice |-> "auto", reason |-> TRUE]

\* the chat() call of _reason: the mirror and the instruction message, the tool schemas,
\* tool_choice 'none', the reasoning model
ReasonRequest(msgs) ==
    [step |-> "reason", messages |-> msgs \o <<ReasonInstruction>>,
     tools |-> RegisteredTools, tool_choice |-> "none", reason |-> TRUE]

\* a variant of DecideRequest that sends the whole mirror
DecideRequestMirror(msgs, lps) ==
    [step |-> "decide", messages |-> msgs,
     tools |-> RegisteredTools, tool_choice |-> "auto", reason |-> FALSE]

\* the chat() call of _decide_action: the messages of the current loop, the tool
\* schemas, tool_choice "auto", the inference model (reason defaults to False)
DecideRequest(msgs, lps) ==
    [step |-> "decide", messages |-> lps[Len(lps)].messages,
     tools |-> RegisteredTools, tool_choice |-> "auto", reason |-> FALSE]

\* Step 1 of an iteration: _reason, the context length is stored, then the Thought is
\* traced and added; a response without context_length ends run() with AttributeError
Reason(resp) ==
    /\ pc = "reason"
    /\ reasonContext' = messages \o <<ReasonInstruction>>
    /\ lastRequest' = ReasonRequest(messages)
    /\ reasoning_response' = resp
    /\ reasonCalls' = reasonCalls + 1
    /\ phases' = Append(phases, "reason")
    /\ LET length == GetAttr(resp, "context_length")
           thought == "Thought: " \o OrElse(resp.content, "")
           msg == Message("assistant", thought, NoToolCalls, None)
           st == AddMessage([messages |-> messages, loops |-> loops], msg)
       IN IF length.ok
          THEN /\ current_context_length' = length.value
               /\ reasoning_trace' = Append(reasoning_trace, thought)
               /\ messages' = st.messages
               /\ loops' = st.loops
               /\ added' = Logged(added, <<msg>>)
               /\ pc' = "decide"
               /\ outcome' = outcome
          ELSE /\ pc' = "idle"
               /\ outcome' = length.value
               /\ UNCHANGED <<current_context_length, reasoning_trace, messages, loops,
                              added>>
    /\ UNCHANGED <<config, loop_counter, loop_summerized, iteration, tools_used,
                   action_response, response, runs, toolRounds, decideCalls,
                   atTerminal, compactInvoked, summarizeLog, lastCalls, lastResults,
                   lastCompact, events,
                   registry, lastRegister, lastGet, answered, atStart>>

\* a variant of IterationEvents that executes each call right before its result is added
IterationEventsInterleaved(tool_calls, results) ==
    <<[ev |-> "add", role |-> "assistant", id |-> None]>>
    \o [k \in 1..(2 * Len(tool_calls)) |->
          IF k % 2 = 1 THEN [ev |-> "execute", role |-> "", id |-> tool_calls[(k + 1) \div 2].id]
          ELSE [ev |-> "add", role |-> "tool", id |-> results[k \div 2].tool_call_id]]

\* the order in which lines 112-116 of run() work: _act executes the calls one by one,
\* then _observe adds the assistant message and one tool message per result
IterationEvents(tool_calls, results) ==
    [i \in 1..Len(tool_calls) |-> [ev |-> "execute", role |-> "", id |-> tool_calls[i].id]]
    \o <<[ev |-> "add", role |-> "assistant", id |-> None]>>
    \o [i \in 1..Len(results) |->
          [ev |-> "add", role |-> "tool", id |-> results[i].tool_call_id]]

\* a variant of ActionTrace that traces the Action only
ActionTraceNoObservation(names, results) ==
    <<"Action: Used tools " \o Join(names, ", ")>>

\* the two reasoning_trace entries of an iteration that used tools
ActionTrace(names, results) ==
    <<"Action: Used tools " \o Join(names, ", "),
      "Observation: " \o FormatObservations(results)>>

\* Step 2 with tool calls: _decide_action, _act, _observe, the trace entries, and the
\* end of the for loop (MaxIterationsError once max_iterations iterations are done)
DecideTools(batch) ==
    /\ pc = "decide"
    /\ toolRounds < MaxToolRounds
    /\ toolRounds' = toolRounds + 1
    /\ decideCalls' = decideCalls + 1
    /\ lastRequest' = DecideRequest(messages, loops)
    /\ action_response' = [content |-> None, tool_calls |-> batch]
    /\ LET results == Act(batch)
           names == [i \in 1..Len(batch) |-> batch[i].name]
           st == AddMessages([messages |-> messages, loops |-> loops],
                             ObserveMessages(batch, results))
       IN /\ lastCalls' = batch
          /\ lastResults' = results
          /\ events' = IterationEvents(batch, results)
          /\ tools_used' = tools_used \o names
          /\ messages' = st.messages
          /\ loops' = st.loops
          /\ added' = Logged(added, ObserveMessages(batch, results))
          /\ reasoning_trace' = reasoning_trace \o ActionTrace(names, results)
    /\ phases' = phases \o <<"decide", "act", "observe">>
    /\ iteration' = iteration + 1
    /\ IF LoopContinues(iteration)
       THEN pc' = "reason" /\ outcome' = outcome
       ELSE pc' = "idle" /\ outcome' = "MaxIterationsError"
    /\ UNCHANGED <<config, loop_counter, current_context_length, loop_summerized,
                   response, runs, reasonContext, atTerminal, compactInvoked,
                   summarizeLog, lastCompact, reasoning_response,
                   registry, lastRegister, lastGet, answered, reasonCalls, atStart>>

\* a variant of TerminalMessages that records the final answer as an assistant message
TerminalMessagesAnswer(content) ==
    <<Message("assistant", OrElse(content, "No answer provided"), NoToolCalls, None)>>

\* the messages the else branch of run() adds to the history for a terminal answer: none
TerminalMessages(content) == << >>

\* a variant of IncrementLoopCounter that leaves the counter alone
IncrementLoopCounterNever(counter) == counter

\* self._loop_counter += 1
IncrementLoopCounter(counter) == counter + 1

\* Step 2 without tool calls: the counter is incremented and the compaction test made;
\* without compaction run() returns here
DecideFinal(content) ==
    /\ pc = "decide"
    /\ decideCalls' = decideCalls + 1
    /\ answered' = answered + 1
    /\ phases' = Append(phases, "decide")
    /\ lastRequest' = DecideRequest(messages, loops)
    /\ action_response' = [content |-> content, tool_calls |-> NoToolCalls]
    /\ loop_counter' = IncrementLoopCounter(loop_counter)
    /\ LET st == AddMessages([messages |-> messages, loops |-> loops],
                             TerminalMessages(content))
       IN /\ messages' = st.messages
          /\ loops' = st.loops
          /\ added' = Logged(added, TerminalMessages(content))
          /\ atTerminal' = [loops |-> st.loops, cursor |-> loop_summerized,
                            messages |-> st.messages]
    /\ IF ShouldCompact(loop_counter', current_context_length)
       THEN pc' = "compact" /\ UNCHANGED <<response, outcome>>
       ELSE /\ pc' = "idle"
            /\ outcome' = "returned"
            /\ response' \in AgentResponses(content, reasoning_trace, tools_used, iteration)
    /\ UNCHANGED <<config, current_context_length, loop_summerized,
                   iteration, reasoning_trace, tools_used, runs, toolRounds,
                   reasonContext, compactInvoked, summarizeLog, lastCalls, lastResults,
                   lastCompact, reasoning_response, events,
                   registry, lastRegister, lastGet, reasonCalls, atStart>>

\* _compact_conversation (compact_conversation with its default count of 1, then the
\* mirror is rebuilt) and the return of run(); an exception of the gateway call leaves
\* run() before the mirror is rebuilt
Compact(out) ==
    /\ pc = "compact"
    /\ compactInvoked' = compactInvoked + 1
    /\ \E r \in CompactConversation(loops, loop_summerized, 1, <<out>>) :
         /\ loops' = r.loops
         /\ loop_summerized' = r.cursor
         /\ summarizeLog' = summarizeLog \o r.passed
         /\ added' = IF r.cursor = 0 THEN added ELSE << >>
         /\ lastCompact' = [count |-> 1, outs |-> <<out>>, loops |-> loops,
                            cursor |-> loop_summerized, raised |-> r.raised,
                            passed |-> r.passed]
         /\ IF r.raised = ""
            THEN /\ messages' = BuildFullConversationFromLoops(messages, r.loops)
                 /\ outcome' = "returned"
                 /\ response' \in AgentResponses(action_response.content, reasoning_trace,
                                                 tools_used, iteration)
            ELSE /\ messages' = messages
                 /\ outcome' = r.raised
                 /\ response' = response
    /\ pc' = "idle"
    /\ UNCHANGED <<config, loop_counter, current_context_length, iteration,
                   reasoning_trace, tools_used, action_response, runs, toolRounds,
                   decideCalls, reasonContext, atTerminal, lastCalls, lastResults,
                   reasoning_response, lastRequest, events,
                   registry, lastRegister, lastGet,
                   answered, reasonCalls, phases, atStart>>

Next ==
    \/ RunStart
    \/ \E resp \in ReasonResponses : Reason(resp)
    \/ \E batch \in DecideBatches : DecideTools(batch)
    \/ \E content \in FinalContents : DecideFinal(content)
    \/ \E out \in SummaryOutcomes : Compact(out)

Spec == Init /\ [][Next]_vars

\* ----------------------------------------- the engine with clear_loop_history
\* clear_loop_history(): self._loops.clear(); the cursor of the summarizer, the loop
\* counter and the mirror are left as they are
ClearLoopHistory ==
    /\ pc = "idle"
    /\ loops' = << >>
    /\ UNCHANGED <<config, messages, loop_counter, current_context_length,
                   loop_summerized, pc, iteration, reasoning_trace, tools_used,
                   action_response, response, outcome, runs, toolRounds, decideCalls,
                   reasonContext, atTerminal, compactInvoked, summarizeLog, lastCalls,
                   lastResults, lastCompact, added, reasoning_response, lastRequest,
                   events, registry, lastRegister, lastGet, answered, reasonCalls,
                   phases, atStart>>

NextClear ==
    \/ Next
    \/ ClearLoopHistory

SpecClear == Init /\ [][NextClear]_vars

\* ------------------------------------------------------- _act on its own
\* the tool calls a batch is drawn from: a good calculator call, one whose expression
\* the calculator rejects in its answer, one that fails validation, one whose execution
\* raises, one whose tool is not registered
CallKinds ==
    {[name |-> "calculator", arguments |-> << <<"expression", "12*4">> >>],
     [name |-> "calculator", arguments |-> << <<"expression", "1/0">> >>],
     [name |-> "calculator", arguments |-> << <<"expr", "12*4">> >>],
     [name |-> "flaky", arguments |-> << >>],
     [name |-> "stock_price", arguments |-> << <<"symbol", "ACME">> >>]}

\* the batches of at most MaxBatch calls, the i-th call with id call_i
ActBatches ==
    UNION {{[i \in 1..n |-> ToolCall("call_" \o ToString(i), f[i].name, f[i].arguments)]
              : f \in [1..n -> CallKinds]} : n \in 0..MaxBatch}

InitAct ==
    /\ EngineInit
    /\ config = DefaultConfig
    /\ loops = << >>
    /\ lastCalls \in ActBatches
    /\ registry = BuiltRegistry
    /\ pc = "act"

\* results = self._act(tool_calls)
ActCall ==
    /\ pc = "act"
    /\ lastResults' = Act(lastCalls)
    /\ pc' = "acted"
    /\ UNCHANGED <<config, messages, loops, loop_counter, current_context_length,
                   loop_summerized, iteration, reasoning_trace, tools_used,
                   action_response, response, outcome, runs, toolRounds, decideCalls,
                   reasonContext, atTerminal, compactInvoked, summarizeLog, lastCalls,
                   lastCompact, added, reasoning_response, lastRequest, events,
                   registry, lastRegister, lastGet,
                   answered, reasonCalls, phases, atStart>>

NextAct == ActCall

SpecAct == InitAct /\ [][NextAct]_vars

\* ------------------------------------------ compact_conversation on its own
\* loops as run() builds them: answered after one tool round, and left by a run() that
\* ended in MaxIterationsError
LoopKinds == {"answered", "exhausted"}

Thought == Message("assistant", "Thought: Use the calculator.", NoToolCalls, None)

CalculatorBatch == <<ToolCall("call_1", "calculator", << <<"expression", "12*4">> >>)>>

MixedBatch ==
    <<ToolCall("call_1", "flaky", << >>),
      ToolCall("call_2", "calculator", << <<"expression", "12*4">> >>)>>

RECURSIVE LoopAddMessages(_, _)
LoopAddMessages(loop, msgs) ==
    IF Len(msgs) = 0 THEN loop
    ELSE LoopAddMessages(LoopAddMessage(loop, msgs[1]), Tail(msgs))

\* the loop of kind `kind` opened when the loop counter was n
BuiltLoop(kind, n) ==
    LoopAddMessages(
        ReActLoop(<< >>, n, << >>),
        <<Message("user", QueryOf(n + 1), NoToolCalls, None), Thought>>
        \o (IF kind = "answered"
            THEN ObserveMessages(CalculatorBatch, Act(CalculatorBatch)) \o <<Thought>>
            ELSE ObserveMessages(MixedBatch, Act(MixedBatch))))

InitCompact ==
    /\ EngineInit
    /\ config = DefaultConfig
    /\ \E n \in 0..MaxLoops : \E f \in [1..n -> LoopKinds] :
         loops = [i \in 1..n |-> BuiltLoop(f[i], i - 1)]
    /\ lastCalls = << >>
    /\ registry = BuiltRegistry
    /\ pc = "api"

\* summarizer.compact_conversation(loops, count), the gateway answering with outs
CompactCall(count, outs) ==
    /\ pc = "api"
    /\ compactInvoked < MaxCalls
    /\ compactInvoked' = compactInvoked + 1
    /\ \E r \in CompactConversation(loops, loop_summerized, count, outs) :
         /\ loops' = r.loops
         /\ loop_summerized' = r.cursor
         /\ summarizeLog' = summarizeLog \o r.passed
         /\ lastCompact' = [count |-> count, outs |-> outs, loops |-> loops,
                            cursor |-> loop_summerized, raised |-> r.raised,
                            passed |-> r.passed]
    /\ UNCHANGED <<config, messages, loop_counter, current_context_length, pc, iteration,
                   reasoning_trace, tools_used, action_response, response, outcome, runs,
                   toolRounds, decideCalls, reasonContext, atTerminal, lastCalls,
                   lastResults, added, reasoning_response, lastRequest, events,
                   registry, lastRegister, lastGet,
                   answered, reasonCalls, phases, atStart>>

\* a further run() opens a loop between two compactions
GrowLoop(kind) ==
    /\ pc = "api"
    /\ Len(loops) < MaxLoops
    /\ loops' = Append(loops, BuiltLoop(kind, Len(loops)))
    /\ lastCompact' = NoCompact
    /\ UNCHANGED <<config, messages, loop_counter, current_context_length,
                   loop_summerized, pc, iteration, reasoning_trace, tools_used,
                   action_response, response, outcome, runs, toolRounds, decideCalls,
                   reasonContext, atTerminal, compactInvoked, summarizeLog, lastCalls,
                   lastResults, added, reasoning_response, lastRequest, events,
                   registry, lastRegister, lastGet,
                   answered, reasonCalls, phases, atStart>>

NextCompact ==
    \/ \E count \in 1..MaxCount : \E outs \in [1..count -> SummaryOutcomes] :
         CompactCall(count, outs)
    \/ \E kind \in LoopKinds : GrowLoop(kind)

SpecCompact == InitCompact /\ [][NextCompact]_vars

\* ------------------------------------- the engine on the repository's LLMClient
\* json.loads of the arguments string of a completion's tool call
JsonLoads(text) ==
    CASE text = "{\"expression\": \"12*4\"}" -> << <<"expression", "12*4">> >>
      [] OTHER -> << >>

\* the chat completions the OpenAI client answers a chat() call with: the content of the
\* first choice's message, its tool calls, and the choice's finish_reason
Completions ==
    [content : {None, "Use the calculator."},
     tool_calls : {<< >>,
                   <<[id |-> "call_1", name |-> "calculator",
                      arguments |-> "{\"expression\": \"12*4\"}"]>>},
     finish_reason : {"stop", "length", "tool_calls"}]

\* LLMResponse.from_openai_response: the fields of the LLMResponse it builds
FromOpenAIResponse(completion) ==
    [content |-> completion.content,
     tool_calls |-> [i \in 1..Len(completion.tool_calls) |->
                       ToolCall(completion.tool_calls[i].id,
                                completion.tool_calls[i].name,
                                JsonLoads(completion.tool_calls[i].arguments))],
     finish_reason |-> completion.finish_reason]

\* run() on an engine built with LLMClient: every response is an LLMResponse
NextClient ==
    \/ RunStart
    \/ \E completion \in Completions : Reason(FromOpenAIResponse(completion))

SpecClient == Init /\ [][NextClient]_vars

\* --------------------------------------------------- the registry on its own
\* the tool objects handed to register(): different tools may bear the same name
ToolObjects ==
    [name : {"calculator", "flaky", "get_current_datetime"}, impl : {"first", "second"}]

\* the names asked of get()
LookupNames == {"calculator", "flaky", "get_current_datetime", "stock_price"}

\* ToolRegistry.__init__: an empty registry
InitRegistry ==
    /\ EngineInit
    /\ config = DefaultConfig
    /\ loops = << >>
    /\ lastCalls = << >>
    /\ registry = << >>
    /\ pc = "registry"

\* registry.register(tool)
Register(tool) ==
    /\ pc = "registry"
    /\ LET r == RegistryRegister(registry, tool) IN
       /\ registry' = r.tools
       /\ lastRegister' = [called |-> TRUE, tool |-> tool, name |-> tool.name,
                           before |-> registry, raised |-> r.raised,
                           message |-> r.message, value |-> NoTool]
    /\ UNCHANGED <<config, messages, loops, loop_counter, current_context_length,
                   loop_summerized, pc, iteration, reasoning_trace, tools_used,
                   action_response, response, outcome, runs, toolRounds, decideCalls,
                   reasonContext, atTerminal, compactInvoked, summarizeLog, lastCalls,
                   lastResults, lastCompact, added, reasoning_response, lastRequest,
                   lastGet, events,
                   answered, reasonCalls, phases, atStart>>

\* registry.get(name)
Get(name) ==
    /\ pc = "registry"
    /\ LET r == RegistryLookup(registry, name) IN
       /\ registry' = r.tools
       /\ lastGet' = [called |-> TRUE, tool |-> NoTool, name |-> name,
                      before |-> registry, raised |-> r.raised, message |-> r.message,
                      value |-> r.value]
    /\ UNCHANGED <<config, messages, loops, loop_counter, current_context_length,
                   loop_summerized, pc, iteration, reasoning_trace, tools_used,
                   action_response, response, outcome, runs, toolRounds, decideCalls,
                   reasonContext, atTerminal, compactInvoked, summarizeLog, lastCalls,
                   lastResults, lastCompact, added, reasoning_response, lastRequest,
                   lastRegister, events,
                   answered, reasonCalls, phases, atStart>>

NextRegistry ==
    \/ \E tool \in ToolObjects : Register(tool)
    \/ \E name \in LookupNames : Get(name)

SpecRegistry == InitRegistry /\ [][NextRegistry]_vars

\* ------------------------------------------------------------------ claims
\* a run() call has ended (returned or raised) and no other has started
RunOver == pc = "idle" /\ runs > 0

\* the run() call that has ended reached a terminal answer: its last Decide-Action step
\* requested no tool
TerminalReached == RunOver /\ decideCalls > 0 /\ Len(action_response.tool_calls) = 0

\* C1: when the k-th Decide-Action step of a run() call is the first to request no tool
\* and carries non-empty text, run() returns a response whose answer is that text and
\* whose iterations is k.
C1_TextDecisionIsReturned ==
    (TerminalReached /\ Truthy(action_response.content))
        => /\ outcome = "returned"
           /\ response.answer = action_response.content
           /\ response.iterations = decideCalls

\* C2: a run() call whose Decide-Action steps all request tools makes exactly
\* max_iterations of them and then fails with MaxIterationsError: it returns no
\* response, never makes a further Decide-Action call, and never stops earlier.
C2_ExhaustionAfterMaxIterations ==
    /\ decideCalls <= config.max_iterations
    /\ (RunOver /\ decideCalls = iteration)
           => /\ outcome = "MaxIterationsError"
              /\ decideCalls = config.max_iterations
              /\ response = NoResponse
    /\ (outcome = "MaxIterationsError")
           => (pc = "idle" /\ decideCalls = iteration /\ iteration = config.max_iterations)

C2_Witness ==
    /\ RunOver
    /\ config.max_iterations = 2
    /\ outcome = "MaxIterationsError"
    /\ decideCalls = 2

\* the prefix _act gives the content of a call that faulted
ErrorPrefix == "Error executing tool: "

HasErrorPrefix(content) ==
    /\ Len(content) >= Len(ErrorPrefix)
    /\ SubSeq(content, 1, Len(ErrorPrefix)) = ErrorPrefix

\* C3: _act returns one ToolResult per ToolCall, in order, each with its call's id and
\* arguments; a call whose lookup, validation or execution faults has the content
\* "Error executing tool: <message>", every other call the output of its tool.
C3_ActResults ==
    (pc = "acted")
        => /\ Len(lastResults) = Len(lastCalls)
           /\ \A i \in 1..Len(lastCalls) :
                /\ lastResults[i].tool_call_id = lastCalls[i].id
                /\ lastResults[i].arguments = lastCalls[i].arguments
                /\ LET out == TryToolCall(lastCalls[i]) IN
                   IF out.ok THEN lastResults[i].content = out.value
                   ELSE /\ HasErrorPrefix(lastResults[i].content)
                        /\ lastResults[i].content = ErrorPrefix \o out.value

C3_Witness ==
    /\ pc = "acted"
    /\ Len(lastCalls) = 3
    /\ lastCalls[1].name = "calculator"
    /\ lastCalls[2].name = "flaky"
    /\ lastCalls[3].name = "calculator"
    /\ Len(lastResults) = 3
    /\ lastResults[1].content = "Result: 48"
    /\ lastResults[2].content = "Error executing tool: boom"
    /\ lastResults[3].content = "Result: 48"

\* C4: at a terminal answer the Compaction Engine is invoked in that call exactly when
\* the incremented loop counter is >= compact_after_loops or the last observed context
\* length is >= compact_context_threshold; when it is not invoked the loops and the
\* cursor are as they were when the answer was reached.
C4_CompactionIffThreshold ==
    TerminalReached
        => /\ compactInvoked \in {0, 1}
           /\ (compactInvoked = 1)
                  <=> \/ loop_counter >= config.compact_after_loops
                      \/ current_context_length >= config.compact_context_threshold
           /\ (compactInvoked = 0)
                  => (loops = atTerminal.loops /\ loop_summerized = atTerminal.cursor)

C4_Witness ==
    /\ TerminalReached
    /\ compactInvoked = 1
    /\ loop_counter < config.compact_after_loops
    /\ current_context_length >= config.compact_context_threshold

C4_WitnessNoCompaction ==
    /\ TerminalReached
    /\ compactInvoked = 0
    /\ loop_counter = 2

\* the text summarize_loop puts in place of a summary it did not get
SummaryPlaceholder == "Summary generation failed."

\* loop is in summarized form: the first message of original, then one summary message
IsSummaryOf(loop, original) ==
    /\ Len(loop.messages) = 2
    /\ loop.messages[1] = original.messages[1]
    /\ loop.messages[1].role = "user"
    /\ loop.messages[2].role = "summary"

\* a run() call has ended after invoking the Compaction Engine
CompactedRunOver == RunOver /\ compactInvoked = 1 /\ lastCompact.count = 1

\* C5: when the summarization call of a compaction triggered by run() raises or gives no
\* text, the summary is "Summary generation failed.", the loop at the cursor is replaced
\* by its two-message form, the cursor advances by one and run() returns its answer.
C5_SummarizationFaultContained ==
    (CompactedRunOver
     /\ (~lastCompact.outs[1].ok \/ ~Truthy(lastCompact.outs[1].value)))
        => /\ outcome = "returned"
           /\ response.answer = OrElse(action_response.content, "No answer provided")
           /\ loop_summerized = lastCompact.cursor + 1
           /\ IsSummaryOf(loops[lastCompact.cursor + 1],
                          lastCompact.loops[lastCompact.cursor + 1])
           /\ loops[lastCompact.cursor + 1].messages[2].content = SummaryPlaceholder

\* C6: the mirror is the system message followed by the messages of the loops in loop
\* order, in every state between and inside run() calls and after a compaction; the
\* context of a Reason call is that sequence, as it was before the Thought was added,
\* followed by the instruction message.
C6_MirrorIsSystemPlusLoops ==
    /\ messages = <<SystemMessage>> \o ConcatLoops(loops)
    /\ (pc = "decide")
           => LET full == <<SystemMessage>> \o ConcatLoops(loops) IN
              reasonContext = SubSeq(full, 1, Len(full) - 1) \o <<ReasonInstruction>>

C6_Witness ==
    /\ pc = "decide"
    /\ loop_summerized = 1
    /\ Len(loops) = 2
    /\ outcome = "running"
    /\ Len(loops[1].messages) = 2
    /\ Len(reasonContext) = 5

\* C7: with compact_after_loops = 1, when the first run() call on an engine has returned,
\* the loop counter is 1, one summarization has been performed, and loop 0 holds the user
\* query of that call followed by one summary message.
C7_FirstRunCompacted ==
    (RunOver /\ runs = 1 /\ outcome = "returned" /\ config.compact_after_loops = 1)
        => /\ loop_counter = 1
           /\ compactInvoked = 1
           /\ summarizeLog = <<[pos |-> 0, done |-> TRUE]>>
           /\ loop_summerized = 1
           /\ Len(loops) = 1
           /\ Len(loops[1].messages) = 2
           /\ loops[1].messages[1] = Message("user", QueryOf(1), NoToolCalls, None)
           /\ loops[1].messages[2].role = "summary"
           /\ loops[1].messages[2].content \in
                  {SummaryPlaceholder, "Asked 12 * 4; the answer is 48."}

C7_Witness ==
    /\ RunOver
    /\ runs = 1
    /\ outcome = "returned"
    /\ config.compact_after_loops = 1
    /\ current_context_length < config.compact_context_threshold
    /\ response.iterations = 2
    /\ Len(loops[1].messages) = 2

\* the positions c, c+1, ..., c+n-1, each handed to summarize_loop and replaced
AscendingFrom(c, n) == [i \in 1..n |-> [pos |-> c + i - 1, done |-> TRUE]]

\* C8: compact_conversation(loops, count) called at cursor c with c + count <= len(loops)
\* replaces the loops at positions c .. c+count-1, in ascending order, each by its
\* summarized form, and leaves the length of the list and every other loop unchanged.
C8_CompactReplacesExactlyCount ==
    (lastCompact.count > 0
     /\ lastCompact.cursor + lastCompact.count <= Len(lastCompact.loops))
        => /\ Len(loops) = Len(lastCompact.loops)
           /\ lastCompact.passed = AscendingFrom(lastCompact.cursor, lastCompact.count)
           /\ \A i \in 1..Len(loops) :
                IF lastCompact.cursor < i /\ i <= lastCompact.cursor + lastCompact.count
                THEN IsSummaryOf(loops[i], lastCompact.loops[i])
                ELSE loops[i] = lastCompact.loops[i]

\* the entries of the log before the j-th that replaced a loop
DoneBefore(j) == {i \in 1..(j - 1) : summarizeLog[i].done}

\* C9: the cursor is the number of loops summarized so far and never goes back: every
\* loop handed to summarize_loop is at the position after the last one summarized, so no
\* position is summarized twice, and a compact_conversation(loops, n) call that returns
\* leaves the cursor n further.
C9_CursorNeverRevisits ==
    /\ \A j \in 1..Len(summarizeLog) : summarizeLog[j].pos = Cardinality(DoneBefore(j))
    /\ loop_summerized = Cardinality(DoneBefore(Len(summarizeLog) + 1))
    /\ loop_summerized >= lastCompact.cursor
    /\ (lastCompact.count > 0 /\ lastCompact.raised = "")
           => loop_summerized = lastCompact.cursor + lastCompact.count

C9_Witness ==
    /\ pc = "api"
    /\ compactInvoked = 2
    /\ summarizeLog = <<[pos |-> 0, done |-> TRUE], [pos |-> 1, done |-> TRUE]>>
    /\ lastCompact.count = 1
    /\ lastCompact.cursor = 1
    /\ lastCompact.raised = ""
    /\ Len(lastCompact.loops) = 2
    /\ loop_summerized = 2

\* the tool names of the ToolCalls carried by the assistant messages of a loop
CalledTools(loop) ==
    UNION {{loop.messages[i].tool_calls[j].name : j \in 1..Len(loop.messages[i].tool_calls)}
             : i \in {k \in 1..Len(loop.messages) : loop.messages[k].role = "assistant"}}

\* C10: the tools_used of every loop run() has built and that is not yet summarized is,
\* as a set, the tool names of the ToolCalls of its assistant messages, and the
\* tools_used of the loop a compaction puts in its place is that same set.
C10_ToolsUsedPreserved ==
    /\ \A i \in (loop_summerized + 1)..Len(loops) :
         Range(loops[i].tools_used) = CalledTools(loops[i])
    /\ (lastCompact.count > 0 /\ lastCompact.raised = "")
           => LET original == lastCompact.loops[lastCompact.cursor + 1]
                  replaced == loops[lastCompact.cursor + 1]
              IN /\ Range(replaced.tools_used) = Range(original.tools_used)
                 /\ Range(original.tools_used) = CalledTools(original)
                 /\ Len(replaced.tools_used) = Cardinality(Range(original.tools_used))

C10_Witness ==
    /\ RunOver
    /\ lastCompact.count = 1
    /\ lastCompact.raised = ""
    /\ Range(loops[lastCompact.cursor + 1].tools_used) = {"calculator", "flaky"}
    /\ Len(lastCompact.loops[lastCompact.cursor + 1].messages) > 6

\* the user-role messages of a sequence, in order
UserMessages(msgs) == SelectSeq(msgs, LAMBDA m : m.role = "user")

\* the queries of the run() calls made so far, as user messages
QueriesSoFar == [k \in 1..runs |-> Message("user", QueryOf(k), NoToolCalls, None)]

\* C11: while no loop has been summarized, the system message followed by the messages of
\* all loops in loop order is, message for message and in the same order, the sequence of
\* messages passed to _add_message since construction: the system prompt, then for each
\* run() its query followed by the Thoughts, tool-call and tool-result messages.
C11_LoopsReplayAddLog ==
    (loop_summerized = 0)
        => /\ <<SystemMessage>> \o ConcatLoops(loops) = added
           /\ added[1] = SystemMessage
           /\ UserMessages(added) = QueriesSoFar
           /\ \A i \in 2..Len(added) : added[i].role \in {"user", "assistant", "tool"}

C11_Witness ==
    /\ loop_summerized = 0
    /\ runs = 2
    /\ pc = "decide"
    /\ Len(loops) = 2
    /\ Len(loops[1].messages) = 7
    /\ Len(added) = 10
    /\ added[4].role = "assistant"
    /\ added[5].role = "tool"

\* a Reason call has been answered
ReasonAnswered == reasoning_response # NoReasoning

\* C12: every response of the Model Gateway to a Reason call carries an integer
\* context_length, which the Reason step stores as the last-observed context length; the
\* compaction decision at a terminal answer is made on the value the Reason step of the
\* terminal iteration stored.
C12_ContextLengthStoredAndUsed ==
    /\ ReasonAnswered
           => /\ "context_length" \in DOMAIN reasoning_response
              /\ reasoning_response.context_length \in Int
              /\ current_context_length = reasoning_response.context_length
              /\ outcome # "AttributeError"
    /\ TerminalReached
           => ((compactInvoked = 1)
                  <=> \/ loop_counter >= config.compact_after_loops
                      \/ reasoning_response.context_length
                             >= config.compact_context_threshold)

\* the roles of the messages of a loop
Roles(loop) == {loop.messages[j].role : j \in 1..Len(loop.messages)}

\* C13: every loop is in one of two shapes: unsummarized, its first message being the
\* user query of the run() call that opened it; or summarized, holding exactly that user
\* query followed by one summary-role message.  (The i-th loop was opened by the i-th
\* run() call; the loops before the cursor are the summarized ones.)
C13_LoopShapes ==
    /\ Len(loops) = runs
    /\ \A i \in 1..Len(loops) :
         LET query == Message("user", QueryOf(i), NoToolCalls, None) IN
         /\ Len(loops[i].messages) >= 1
         /\ loops[i].messages[1] = query
         /\ IF i <= loop_summerized
            THEN /\ Len(loops[i].messages) = 2
                 /\ loops[i].messages[2].role = "summary"
            ELSE /\ "summary" \notin Roles(loops[i])
                 /\ \A j \in 2..Len(loops[i].messages) :
                      loops[i].messages[j].role \in {"assistant", "tool"}

C13_Witness ==
    /\ RunOver
    /\ runs = 2
    /\ loop_summerized = 1
    /\ outcome = "MaxIterationsError"
    /\ Len(loops[1].messages) = 2
    /\ loops[1].messages[2].role = "summary"
    /\ Len(loops[2].messages) > 2

\* what a step appended to a sequence
Appended(old, new) == SubSeq(new, Len(old) + 1, Len(new))

\* C14: every run() call appends exactly one loop to the loop sequence, so there are as
\* many loops as calls whether a call returned, raised MaxIterationsError or is still
\* at work; and every step of a call other than the compaction adds its messages to the
\* mirror and to the last loop, the loop the call opened, and leaves every other loop as
\* it was.
C14_OneLoopPerRun ==
    [][/\ Len(loops') = runs'
       /\ runs' \in {runs, runs + 1}
       /\ (pc # "compact")
              => LET n == Len(loops')
                     before == IF runs' = runs THEN loops[n].messages ELSE << >>
                 IN /\ SubSeq(messages', 1, Len(messages)) = messages
                    /\ \A i \in 1..(n - 1) : loops'[i] = loops[i]
                    /\ loops'[n].messages = before \o Appended(messages, messages')]_vars

C14_Witness ==
    /\ RunOver
    /\ runs = 2
    /\ Len(loops) = 2
    /\ outcome = "MaxIterationsError"
    /\ decideCalls = 2
    /\ loop_summerized = 0
    /\ response = NoResponse
    /\ Len(loops[1].messages) = 2
    /\ Len(loops[2].messages) > 6

\* the run() call that has ended returned a response
RunReturned == RunOver /\ outcome = "returned"

\* C15: the tools_used of the response run() returns has no duplicates and is exactly the
\* set of tool names of the ToolCalls the Decide-Action steps of that call requested (the
\* ToolCalls in the assistant messages of the call's loop when the answer was reached):
\* names requested by earlier calls only are absent, names whose execution faulted are
\* present.
C15_ResponseToolsUsed ==
    RunReturned
        => /\ Cardinality(Range(response.tools_used)) = Len(response.tools_used)
           /\ Range(response.tools_used) = CalledTools(atTerminal.loops[runs])

C15_Witness ==
    /\ RunReturned
    /\ Len(tools_used) = 3
    /\ Len(response.tools_used) = 2
    /\ Range(response.tools_used) = {"calculator", "flaky"}
    /\ lastResults[2].content = "Error executing tool: boom"

C15_WitnessEarlierExcluded ==
    /\ RunReturned
    /\ runs = 2
    /\ Range(loops[1].tools_used) = {"calculator", "flaky"}
    /\ response.tools_used = << >>

\* the ids of the ToolCalls carried by the assistant messages among msgs
CalledIds(msgs) ==
    UNION {{msgs[k].tool_calls[c].id : c \in 1..Len(msgs[k].tool_calls)}
             : k \in {n \in 1..Len(msgs) : msgs[n].role = "assistant"}}

\* C16: in every loop that is not summarized, each tool-role message carries a non-null
\* tool_call_id, which is the id of a ToolCall carried by an assistant message earlier in
\* the same loop.
C16_ToolMessagesAnswerCalls ==
    \A i \in (loop_summerized + 1)..Len(loops) :
        \A j \in 1..Len(loops[i].messages) :
            (loops[i].messages[j].role = "tool")
                => /\ loops[i].messages[j].tool_call_id # None
                   /\ loops[i].messages[j].tool_call_id
                          \in CalledIds(SubSeq(loops[i].messages, 1, j - 1))

C16_Witness ==
    /\ pc = "reason"
    /\ runs = 2
    /\ loop_summerized = 1
    /\ Len(loops[2].messages) = 6
    /\ loops[2].messages[3].role = "assistant"
    /\ loops[2].messages[6].role = "tool"
    /\ loops[2].messages[6].tool_call_id = "call_3"

\* text occurs in s
Contains(s, text) ==
    \E i \in 1..(Len(s) - Len(text) + 1) : SubSeq(s, i, i + Len(text) - 1) = text

\* C17: register(tool) with a name already registered fails with the duplicate-name
\* error (ValueError) and leaves the registry as it was, the earlier tool still bound to
\* the name; get(name) for a name not registered fails with the not-found error
\* (KeyError), whose message names every registered tool, and leaves the registry as it
\* was.
C17_RegistryFaults ==
    [][/\ (lastRegister' # lastRegister /\ lastRegister'.name \in Range(Keys(registry)))
              => /\ lastRegister'.raised = "ValueError"
                 /\ Contains(lastRegister'.message, "'" \o lastRegister'.name \o "'")
                 /\ registry' = registry
                 /\ ToolNamed(registry', lastRegister'.name)
                        = ToolNamed(registry, lastRegister'.name)
       /\ (lastGet' # lastGet /\ lastGet'.name \notin Range(Keys(registry)))
              => /\ lastGet'.raised = "KeyError"
                 /\ Contains(lastGet'.message, "'" \o lastGet'.name \o "'")
                 /\ \A i \in 1..Len(registry) :
                      Contains(lastGet'.message, "'" \o registry[i].name \o "'")
                 /\ registry' = registry]_vars

C17_Witness ==
    /\ lastRegister.raised = "ValueError"
    /\ lastRegister.tool = [name |-> "calculator", impl |-> "second"]
    /\ ToolNamed(registry, "calculator").impl = "first"
    /\ registry = lastRegister.before
    /\ lastGet.raised = "KeyError"
    /\ lastGet.name = "stock_price"
    /\ lastGet.before = registry
    /\ Len(registry) = 2

\* the last step was an iteration of run() that requested tools
ToolIterationDone ==
    \/ pc = "reason" /\ iteration > 0
    \/ pc = "idle" /\ outcome = "MaxIterationsError"

\* the last n elements of a sequence
Last(seq, n) == SubSeq(seq, Len(seq) - n + 1, Len(seq))

\* C18: in an iteration whose Decide-Action step requests n >= 1 ToolCalls, all n calls
\* are executed, in order, before any message is added; then one assistant message with
\* null content carrying the n ToolCalls is added to the loop and the mirror, followed by
\* n tool messages in the order of the ToolCalls, the i-th with the i-th ToolCall's id as
\* tool_call_id and the content "<result content> (with arguments: <arguments>)".
C18_ObserveAfterAct ==
    ToolIterationDone
        => LET n == Len(lastCalls)
               loop == loops[Len(loops)]
               tail == Last(messages, n + 1)
           IN /\ n >= 1
              /\ Len(events) = 2 * n + 1
              /\ \A i \in 1..n :
                   /\ events[i].ev = "execute"
                   /\ events[i].id = lastCalls[i].id
                   /\ events[n + 1 + i] = [ev |-> "add", role |-> "tool",
                                           id |-> lastCalls[i].id]
              /\ events[n + 1] = [ev |-> "add", role |-> "assistant", id |-> None]
              /\ Last(loop.messages, n + 1) = tail
              /\ tail[1] = Message("assistant", None, lastCalls, None)
              /\ \A i \in 1..n :
                   tail[i + 1] = Message("tool",
                                         lastResults[i].content \o " (with arguments: "
                                             \o PyStrDict(lastCalls[i].arguments) \o ")",
                                         NoToolCalls, lastCalls[i].id)
              /\ messages[Len(messages) - n - 1].role = "assistant"
              /\ messages[Len(messages) - n - 1].content # None
              /\ messages[Len(messages) - n - 1].tool_calls = NoToolCalls

C18_Witness ==
    /\ pc = "reason"
    /\ iteration = 1
    /\ Len(lastCalls) = 3
    /\ Len(events) = 7
    /\ messages[Len(messages)].content
           = "Error: Division by zero (with arguments: {'expression': '1/0'})"
    /\ messages[Len(messages)].tool_call_id = "call_3"
    /\ messages[Len(messages) - 3].tool_calls = lastCalls

\* the run() call at work has reached its terminal answer
AtTerminalAnswer == pc = "compact" \/ TerminalReached

\* the messages of the current loop when the last Decide-Action call was made: the loop
\* as it was at the terminal answer, or the loop without the messages _observe has added
\* since
LoopAtDecide ==
    IF AtTerminalAnswer THEN atTerminal.loops[runs].messages
    ELSE SubSeq(loops[runs].messages, 1, Len(loops[runs].messages) - Len(lastCalls) - 1)

\* C19: every Decide-Action call is given exactly the messages of the current loop, which
\* begin with the user query of the call and end with the Thought just recorded, and
\* hold neither the system message nor a message of an earlier loop; it is made with the
\* inference model (reason = False) and tool_choice "auto".
C19_DecideSeesCurrentLoop ==
    (AtTerminalAnswer \/ ToolIterationDone)
        => /\ lastRequest.step = "decide"
           /\ lastRequest.tool_choice = "auto"
           /\ lastRequest.reason = FALSE
           /\ lastRequest.messages = LoopAtDecide
           /\ lastRequest.messages[1] = Message("user", QueryOf(runs), NoToolCalls, None)
           /\ UserMessages(lastRequest.messages) = <<lastRequest.messages[1]>>
           /\ lastRequest.messages[Len(lastRequest.messages)]
                  = Message("assistant",
                            "Thought: " \o OrElse(reasoning_response.content, ""),
                            NoToolCalls, None)
           /\ \A j \in 1..Len(lastRequest.messages) :
                lastRequest.messages[j].role \in {"user", "assistant", "tool"}

C19_Witness ==
    /\ ToolIterationDone
    /\ runs = 2
    /\ iteration = 2
    /\ Len(loops[1].messages) = 2
    /\ lastRequest.step = "decide"
    /\ Len(lastRequest.messages) = 5
    /\ lastRequest.messages[4].role = "tool"
    /\ Len(messages) > Len(lastRequest.messages) + Len(loops[1].messages)

\* the Thought message a Reason step adds for the response it got
ThoughtOf(resp) ==
    Message("assistant", "Thought: " \o OrElse(resp.content, ""), NoToolCalls, None)

C21_CompactionOnlyAtCompletion ==
    /\ compactInvoked \in {0, 1}
    /\ (compactInvoked = 1)
           => /\ pc = "idle"
              /\ decideCalls = iteration + 1
              /\ action_response.tool_calls = NoToolCalls
              /\ outcome # "MaxIterationsError"
    /\ ToolIterationDone => compactInvoked = 0
    /\ (RunReturned /\ compactInvoked = 1)
           => /\ lastCompact.loops = atTerminal.loops
              /\ loop_summerized = atTerminal.cursor + 1
              /\ IsSummaryOf(loops[loop_summerized], atTerminal.loops[loop_summerized])
              /\ \A i \in 1..Len(loops) :
                   i # loop_summerized => loops[i] = atTerminal.loops[i]
              /\ messages = <<SystemMessage>> \o ConcatLoops(loops)

C21_Witness ==
    /\ RunReturned
    /\ compactInvoked = 1
    /\ runs = 2
    /\ loop_summerized = 1
    /\ Len(atTerminal.loops[1].messages) > 6
    /\ Len(loops[1].messages) = 2
    /\ Len(loops[2].messages) = 2
    /\ Len(messages) = 5

\* the run() call in progress or just ended reached a terminal answer
ReachedTerminal == pc = "compact" \/ TerminalReached

\* C22: the loop counter never decreases: it counts the run() calls that reached a
\* terminal answer.  A call raises it by exactly one when it reaches its terminal answer,
\* before the compaction test (which is made on the raised value), and a call that has
\* not reached one, or that ended in MaxIterationsError, leaves it as it found it.
C22_LoopCounterCountsAnswers ==
    /\ loop_counter = answered
    /\ loop_counter >= atStart.loop_counter
    /\ (pc \in {"reason", "decide"}) => loop_counter = atStart.loop_counter
    /\ (pc = "idle" /\ outcome = "MaxIterationsError")
           => loop_counter = atStart.loop_counter
    /\ ReachedTerminal => loop_counter = atStart.loop_counter + 1
    /\ (pc = "compact") => ShouldCompact(atStart.loop_counter + 1, current_context_length)
    /\ (TerminalReached /\ compactInvoked = 0)
           => ~ShouldCompact(atStart.loop_counter + 1, current_context_length)

C22_Witness ==
    /\ RunReturned
    /\ runs = 2
    /\ atStart.outcome = "MaxIterationsError"
    /\ atStart.loop_counter = 0
    /\ loop_counter = 1
    /\ Len(loops) = 2
    /\ compactInvoked = 1

\* the phases of a run() call follow Reason -> Decide -> (Act -> Observe -> Reason | end)
PhaseOrder(ph) ==
    /\ Len(ph) > 0 => ph[1] = "reason"
    /\ \A i \in 1..Len(ph) :
         /\ ph[i] = "reason" => (i = Len(ph) \/ ph[i + 1] = "decide")
         /\ ph[i] = "decide" => (i = Len(ph) \/ ph[i + 1] = "act")
         /\ ph[i] = "act" => (i < Len(ph) /\ ph[i + 1] = "observe")
         /\ ph[i] = "observe" => (i = Len(ph) \/ ph[i + 1] = "reason")

\* how many entries of ph are the phase p
CountOf(ph, p) == Cardinality({i \in 1..Len(ph) : ph[i] = p})

\* the steps a run() call in progress can still take, at most: two per iteration left,
\* and the compaction
RunMeasure ==
    CASE pc = "reason" -> 2 * (config.max_iterations - iteration) + 2
      [] pc = "decide" -> 2 * (config.max_iterations - iteration) + 1
      [] pc = "compact" -> 1
      [] OTHER -> 0

\* the counts and the order of the phases of the run() call in progress or just ended
RunBounded ==
    /\ RunMeasure \in 0..(2 * config.max_iterations + 2)
    /\ (pc # "idle") => RunMeasure > 0
    /\ PhaseOrder(phases)
    /\ reasonCalls = CountOf(phases, "reason")
    /\ decideCalls = CountOf(phases, "decide")
    /\ reasonCalls <= config.max_iterations
    /\ decideCalls <= config.max_iterations
    /\ (pc = "reason") => (Len(phases) = 0 \/ phases[Len(phases)] = "observe")
    /\ (pc = "decide") => phases[Len(phases)] = "reason"
    /\ (RunOver /\ outcome = "MaxIterationsError")
           => /\ phases[Len(phases)] = "observe"
              /\ reasonCalls = config.max_iterations
              /\ decideCalls = config.max_iterations
    /\ ReachedTerminal
           => /\ phases[Len(phases)] = "decide"
              /\ reasonCalls = decideCalls
              /\ CountOf(phases, "act") = decideCalls - 1

Summarized(loop) ==
    /\ Len(loop.messages) = 2
    /\ loop.messages[1].role = "user"
    /\ loop.messages[2].role = "summary"

\* C24: after any sequence of run() calls, cursor <= loop counter <= number of loops, and
\* a loop is in summarized form exactly when it lies before the cursor (holds no summary
\* message otherwise); hence a compaction triggered by run() finds at the cursor a loop
\* that exists and is not yet summarized, and never fails with an index error.
C24_CursorCounterLoops ==
    /\ loop_summerized <= loop_counter
    /\ loop_counter <= Len(loops)
    /\ \A i \in 1..Len(loops) :
         /\ Summarized(loops[i]) <=> i <= loop_summerized
         /\ ("summary" \in Roles(loops[i])) <=> i <= loop_summerized
    /\ (pc = "compact")
           => /\ loop_summerized < Len(loops)
              /\ ~Summarized(loops[loop_summerized + 1])
    /\ (compactInvoked = 1)
           => /\ lastCompact.raised # "IndexError"
              /\ lastCompact.cursor < Len(lastCompact.loops)
              /\ ~Summarized(lastCompact.loops[lastCompact.cursor + 1])
              /\ Len(lastCompact.passed) = 1
              /\ lastCompact.passed[1].pos = lastCompact.cursor

C24_Witness ==
    /\ RunReturned
    /\ runs = 2
    /\ compactInvoked = 1
    /\ atStart.outcome = "MaxIterationsError"
    /\ loop_summerized = 1
    /\ loop_counter = 1
    /\ Len(loops) = 2
    /\ Summarized(loops[1])
    /\ ~Summarized(loops[2])

\* C25: whatever run() and clear_loop_history() calls were made, a compaction triggered
\* by run() finds a loop at the cursor (cursor < number of loops) and does not fail with
\* an index error, and when a run() call returns the mirror is the system message
\* followed by the messages of the loops.
C25_ClearLoopHistoryHarmless ==
    /\ []((pc = "compact") => loop_summerized < Len(loops))
    /\ [][(pc # "idle" /\ pc' = "idle")
            => /\ outcome' # "IndexError"
               /\ (outcome' = "returned")
                      => messages' = <<SystemMessage>> \o ConcatLoops(loops')]_vars

\* the run() call that has ended failed with MaxIterationsError
RunExhausted == RunOver /\ outcome = "MaxIterationsError"

\* the run() call in progress or just ended follows one that failed with
\* MaxIterationsError
AfterExhausted == runs > 1 /\ atStart.outcome = "MaxIterationsError"

\* the loops before the compaction of the current run() call, if it made one
LoopsBeforeCompaction == IF compactInvoked = 1 THEN lastCompact.loops ELSE loops

\* the messages of seq that satisfy Test
Matching(seq, Test(_)) == {i \in 1..Len(seq) : Test(seq[i])}

IsThought(m) == m.role = "assistant" /\ m.tool_calls = NoToolCalls
IsToolRequest(m) == m.role = "assistant" /\ m.tool_calls # NoToolCalls
IsToolResult(m) == m.role = "tool"

\* C26: when run() fails with MaxIterationsError, the loop it opened is still the last
\* of the loop sequence and holds every message added during the call (the user query,
\* one Thought and one tool-call message per iteration, one tool message per call), the
\* mirror is the mirror at the call followed by those messages, and the loop counter and
\* the cursor are as they were at the call.  In the run() call after it, every Reason
\* context contains the messages of the failed loop, and the loop it opens has the
\* iteration number of the failed one.
C26_ExhaustedRunLeavesItsLoop ==
    /\ RunExhausted
           => /\ Len(loops) = runs
              /\ loops[Len(loops)].messages[1]
                     = Message("user", QueryOf(runs), NoToolCalls, None)
              /\ LET msgs == loops[Len(loops)].messages
                 IN /\ Cardinality(Matching(msgs, IsThought)) = config.max_iterations
                    /\ Cardinality(Matching(msgs, IsToolRequest)) = config.max_iterations
                    /\ Cardinality(Matching(msgs, IsToolResult)) = Len(tools_used)
                    /\ Len(msgs) = 1 + 2 * config.max_iterations + Len(tools_used)
                    /\ messages = atStart.messages \o msgs
              /\ loop_counter = atStart.loop_counter
              /\ loop_summerized = atStart.cursor
              /\ compactInvoked = 0
    /\ AfterExhausted
           => /\ Len(loops) = runs
              /\ loops[runs].iteration = loops[runs - 1].iteration
              /\ loops[runs].iteration = atStart.loop_counter
              /\ (reasonCalls > 0)
                     => Contains(reasonContext, LoopsBeforeCompaction[runs - 1].messages)

C26_Witness ==
    /\ AfterExhausted
    /\ RunExhausted
    /\ runs = 2
    /\ loops[1].iteration = 0
    /\ loops[2].iteration = 0
    /\ Len(loops[1].messages) > 3
    /\ Contains(reasonContext, loops[1].messages)
    /\ loop_counter = 0

\* C27: once the loop counter has reached compact_after_loops, every later run() call
\* that reaches a terminal answer triggers compaction; each compaction run() triggers is
\* made with count 1 and summarizes exactly one loop, the one at the cursor, which then
\* advances by one; so the number of unsummarized loops (number of loops minus cursor)
\* after a run() call is never less than before it.
C27_OneLoopPerTriggeredCompaction ==
    /\ (ReachedTerminal /\ atStart.loop_counter >= config.compact_after_loops)
           => (pc = "compact" \/ compactInvoked = 1)
    /\ (RunOver /\ compactInvoked = 1)
           => /\ lastCompact.count = 1
              /\ loop_summerized = atStart.cursor + 1
              /\ Summarized(loops[loop_summerized])
              /\ ~Summarized(lastCompact.loops[loop_summerized])
              /\ \A i \in 1..Len(loops) :
                   i # loop_summerized => loops[i] = lastCompact.loops[i]
    /\ RunOver => Len(loops) - loop_summerized >= (Len(loops) - 1) - atStart.cursor

\* the answers run() can return with the texts the gateway gives
ReturnedAnswers == {OrElse(c, "No answer provided") : c \in FinalContents}

\* no message of msgs has one of the returned answers as its content
AnswerFree(msgs) == \A i \in 1..Len(msgs) : msgs[i].content \notin ReturnedAnswers

\* the text holds none of the returned answers
AnswerFreeText(text) == \A a \in ReturnedAnswers : ~Contains(text, a)

\* the lines of the transcript the last compaction handed to the gateway for
\* summarization
LastTranscript ==
    IF lastCompact # NoCompact /\ lastCompact.cursor < Len(lastCompact.loops)
    THEN AllTranscriptLines(lastCompact.loops[lastCompact.cursor + 1].messages)
    ELSE << >>

\* no line of the transcript renders an assistant message that is a returned answer, and
\* its last line holds none
AnswerFreeTranscript(lines) ==
    /\ \A i \in 1..Len(lines) : \A a \in ReturnedAnswers : lines[i] # "ASSISTANT: " \o a
    /\ Len(lines) > 0 => AnswerFreeText(lines[Len(lines)])

\* C28: the answer run() returns is never added to a loop or to the mirror: no message of
\* the mirror, of a loop, or of the request last sent to the model (each Reason context
\* and each Decide-Action request in its turn) is a returned answer, and the transcript
\* handed to the gateway for summarization holds none; when run() has reached its
\* terminal answer and its own loop is not summarized, the last message of that loop (and
\* of the mirror) is the Thought of the terminal iteration, which holds no returned answer.
C28_AnswerNeverRecorded ==
    /\ AnswerFree(messages)
    /\ \A i \in 1..Len(loops) : AnswerFree(loops[i].messages)
    /\ AnswerFree(lastRequest.messages)
    /\ (RunOver /\ compactInvoked = 1) => AnswerFreeTranscript(LastTranscript)
    /\ (ReachedTerminal /\ loop_summerized < runs)
           => /\ loops[runs].messages[Len(loops[runs].messages)]
                     = ThoughtOf(reasoning_response)
              /\ messages[Len(messages)] = ThoughtOf(reasoning_response)
              /\ AnswerFreeText(messages[Len(messages)].content)

C28_Witness ==
    /\ RunReturned
    /\ runs = 2
    /\ loop_counter = 2
    /\ response.answer = "The answer is 48."
    /\ compactInvoked = 1
    /\ lastCompact.cursor = 0
    /\ loop_summerized = 1
    /\ Len(LastTranscript) = 2
    /\ Len(reasonContext) > 4
    /\ loops[2].messages[Len(loops[2].messages)] = ThoughtOf(reasoning_response)

\* the text begins with the prefix
StartsWith(text, prefix) ==
    /\ Len(text) >= Len(prefix)
    /\ SubSeq(text, 1, Len(prefix)) = prefix

\* no message of msgs is an Action or an Observation entry of the trace
TraceFree(msgs) ==
    \A i \in 1..Len(msgs) :
      /\ ~StartsWith(msgs[i].content, "Action:")
      /\ ~StartsWith(msgs[i].content, "Observation:")

\* the trace holds a Thought, an Action and an Observation entry, in that order, for each
\* of n iterations
TraceOfIterations(trace, n) ==
    \A j \in 0..(n - 1) :
      /\ StartsWith(trace[3 * j + 1], "Thought:")
      /\ StartsWith(trace[3 * j + 2], "Action:")
      /\ StartsWith(trace[3 * j + 3], "Observation:")

\* C29: the reasoning_trace returned by a run() call that finishes in k iterations has
\* exactly 3(k-1)+1 entries: a Thought, an Action and an Observation entry, in that
\* order, for each of the first k-1 iterations, then the final Thought; the Action and
\* Observation entries are in the trace only, never in a message of the mirror, of a
\* loop, or of a request sent to the model.
C29_TraceShape ==
    /\ (pc \in {"reason", "decide"})
           => /\ Len(reasoning_trace) = 3 * iteration + (IF pc = "decide" THEN 1 ELSE 0)
              /\ TraceOfIterations(reasoning_trace, iteration)
    /\ RunReturned
           => /\ Len(response.reasoning_trace) = 3 * (response.iterations - 1) + 1
              /\ TraceOfIterations(response.reasoning_trace, response.iterations - 1)
              /\ StartsWith(response.reasoning_trace[Len(response.reasoning_trace)],
                            "Thought:")
              /\ response.iterations = decideCalls
    /\ TraceFree(messages)
    /\ \A i \in 1..Len(loops) : TraceFree(loops[i].messages)
    /\ TraceFree(lastRequest.messages)

C29_Witness ==
    /\ RunReturned
    /\ response.iterations = 2
    /\ Len(response.reasoning_trace) = 4
    /\ StartsWith(response.reasoning_trace[3], "Observation: Error executing tool")
    /\ Len(loops[runs].messages) = 7

\* C30: when the terminal Decide-Action response has neither tool calls nor text (content
\* null or empty), run() does not fail: it returns with the answer 'No answer provided',
\* the loop counter is raised by one and the compaction test is made on the raised
\* counter and the stored context length, as for any terminal answer.
C30_EmptyDecisionIsReturned ==
    (TerminalReached /\ ~Truthy(action_response.content))
        => /\ outcome = "returned"
           /\ response.answer = "No answer provided"
           /\ response.iterations = decideCalls
           /\ loop_counter = atStart.loop_counter + 1
           /\ (compactInvoked = 1)
                  <=> (\/ loop_counter >= config.compact_after_loops
                       \/ current_context_length >= config.compact_context_threshold)

====
